---- MODULE Spec2Model ----
(***************************************************************************)
(* Count-Min Sketch with a Top-N side index (package statistics).          *)
(*                                                                         *)
(* src/statistics/cmsketch.go holds two copies of the package file:        *)
(*   copy A, lines   1-397: topNHelper builder, field topN, codec without  *)
(*                          Top-N (EncodeCMSketch / DecodeCMSketch);       *)
(*   copy B, lines 399-905: BuildTopN builder, field topnindex, codec with *)
(*                          externalized Top-N payloads.                   *)
(* Definitions of copy A end in A, those of copy B end in B; a definition  *)
(* without suffix is the same code in both copies.  The variable ver says  *)
(* which copy the modelled program was built from.                         *)
(*                                                                         *)
(* uint32 and uint64 are scaled to Bits32 and Bits64 bits: TLC's integers  *)
(* are 32 bits wide.  Every conversion and every wrapping operation of the *)
(* code is kept, at the scaled width.                                      *)
(***************************************************************************)
EXTENDS Integers, Sequences, FiniteSets, TLC

VARIABLES
    ver,    \* "A" or "B": the copy of cmsketch.go in use
    c,      \* the sketch the operations act on (the receiver)
    rc,     \* a second sketch (the argument of MergeCMSketch)
    last,   \* the last operation: its name, inputs, result and the state before
    wire,   \* the last output of the encoder: blob and side-channel payloads
    hist,   \* how c came to be: its constructor and the operations that changed it
    nops,   \* number of operations performed so far
    args    \* the arguments of the builder call that makes c (NoArgs: none pending)

vars == <<ver, c, rc, last, wire, hist, nops, args>>

(***************************************************************************)
(* Bounds of the model.                                                    *)
(***************************************************************************)
Bits32 == 3          \* modelled width of uint32
Bits64 == 6          \* modelled width of uint64
MaxOps == 2          \* operations per behaviour
MaxDepth == 2        \* depths 1..MaxDepth
MaxWidth == 3        \* widths 1..MaxWidth
MaxCnt == 2          \* occurrences of one key in a sample: 0..MaxCnt
MaxNumTop == 2       \* numTop: 0..MaxNumTop
MaxRatio == 3        \* rowCount is up to MaxRatio times the sample size

M32 == 2^Bits32
M64 == 2^Bits64

\* uint32(x), uint64 arithmetic
U32(x) == x % M32
U64(x) == x % M64
Add64(a, b) == (a + b) % M64
Sub64(a, b) == (a - b) % M64
Mul64(a, b) == (a * b) % M64
Add32(a, b) == (a + b) % M32
Sub32(a, b) == (a - b) % M32

Min(a, b) == IF a < b THEN a ELSE b

(***************************************************************************)
(* Keys are byte strings; 0 stands for a nil []byte.  murmur3.Sum128 is    *)
(* a fixed table: keys 1 and 2 share h1 (one Top-N bucket, different h2),  *)
(* key 3 has a large h1, so that h1 + h2*i wraps in uint64.                *)
(***************************************************************************)
NilData == 0
Keys == {1, 2, 3}

Sum128(d) ==
    CASE d = 1 -> [h1 |-> 5, h2 |-> 1]
      [] d = 2 -> [h1 |-> 5, h2 |-> 2]
      [] d = 3 -> [h1 |-> M64 - 3, h2 |-> 3]
      [] OTHER -> [h1 |-> 0, h2 |-> 0]

(***************************************************************************)
(* type CMSketch.  table is a sequence of depth rows, each a sequence of   *)
(* width counters (row i, column j of the code is table[i+1][j+1]).  topN  *)
(* is the map h1 -> []dataCount, a function whose domain is the set of     *)
(* keys of the map; topNnil says that the map is nil.  nil says that the   *)
(* *CMSketch pointer is nil.                                               *)
(***************************************************************************)
NewCMSketch(d, w) ==
    [nil |-> FALSE, depth |-> d, width |-> w, count |-> 0, defaultValue |-> 0,
     table |-> [i \in 1..d |-> [j \in 1..w |-> 0]],
     topNnil |-> TRUE, topN |-> <<>>]

NilSketch ==
    [nil |-> TRUE, depth |-> 0, width |-> 0, count |-> 0, defaultValue |-> 0,
     table |-> <<>>, topNnil |-> TRUE, topN |-> <<>>]

dataCount(h1, h2, data, count) ==
    [h1 |-> h1, h2 |-> h2, data |-> data, count |-> count]

\* c.topN[h1]: the bucket, the nil slice when the key is missing
Bucket(s, h1) == IF h1 \in DOMAIN s.topN THEN s.topN[h1] ELSE <<>>

\* index of the first entry of a bucket with cnt.h2 == h2 && bytes.Equal(d, cnt.data); 0 if none
FindEntry(vals, h2, d) ==
    LET hit == {i \in 1..Len(vals) : vals[i].h2 = h2 /\ vals[i].data = d}
    IN IF hit = {} THEN 0 ELSE CHOOSE i \in hit : \A k \in hit : i <= k

\* j := (h1 + h2*uint64(i)) % uint64(c.width), for the 0-based row i
Column(s, h1, h2, i) == Add64(h1, Mul64(h2, i)) % s.width

\* all entries of the Top-N map
TopNEntries(s) == UNION {{s.topN[k][i] : i \in 1..Len(s.topN[k])} : k \in DOMAIN s.topN}

\* the keys (data) held by the Top-N map
TopNKeys(s) == {e.data : e \in TopNEntries(s)}

(***************************************************************************)
(* Insertion.                                                              *)
(***************************************************************************)

\* mutant: the loop over the rows stops after the first row
AddToTableFirstRow(s, h1, h2, n) ==
    [s EXCEPT !.count = Add64(@, n),
              !.table = [i \in 1..Len(s.table) |->
                           [j \in 1..s.width |->
                              IF i = 1 /\ j = Column(s, h1, h2, i - 1) + 1
                              THEN Add32(s.table[i][j], U32(n))
                              ELSE s.table[i][j]]]]

\* c.count += n; for i := range c.table { j := ...; c.table[i][j] += uint32(n) }
AddToTable(s, h1, h2, n) ==
    [s EXCEPT !.count = Add64(@, n),
              !.table = [i \in 1..Len(s.table) |->
                           [j \in 1..s.width |->
                              IF j = Column(s, h1, h2, i - 1) + 1
                              THEN Add32(s.table[i][j], U32(n))
                              ELSE s.table[i][j]]]]

\* Copy A.  `for _, cnt := range c.topN[h1]` binds cnt to a copy of the slice
\* element, so `cnt.count += delta` changes the copy and the map keeps the old
\* count; the function still answers true for a Top-N member.
updateTopNWithDeltaA(s, h1, h2, delta, d) ==
    [c |-> s, ok |-> ~s.topNnil /\ FindEntry(Bucket(s, h1), h2, d) # 0]

queryTopNA(s, h1, h2, d) ==
    LET vals == Bucket(s, h1)
        k == FindEntry(vals, h2, d)
    IN IF s.topNnil \/ k = 0 THEN [count |-> 0, ok |-> FALSE]
       ELSE [count |-> vals[k].count, ok |-> TRUE]

updateBytesWithDeltaA(s, bytes, n) ==
    LET h == Sum128(bytes)
        r == updateTopNWithDeltaA(s, h.h1, h.h2, n, bytes)
    IN IF r.ok THEN r.c ELSE AddToTable(r.c, h.h1, h.h2, n)

\* Copy B.  cnt[k].count += count writes through the slice into the map.
queryAddTopNB(s, h1, h2, count, d) ==
    LET vals == Bucket(s, h1)
        k == FindEntry(vals, h2, d)
    IN IF s.topNnil \/ h1 \notin DOMAIN s.topN \/ k = 0
       THEN [c |-> s, count |-> 0, ok |-> FALSE]
       ELSE LET n == Add64(vals[k].count, count)
            IN [c |-> [s EXCEPT !.topN[h1][k].count = n], count |-> n, ok |-> TRUE]

queryTopNB(s, h1, h2, d) == queryAddTopNB(s, h1, h2, 0, d)

\* mutant: the return after a Top-N hit is missing, the table is written as well
InsertBytesNBNoReturn(s, bytes, n) ==
    LET h == Sum128(bytes)
        r == queryAddTopNB(s, h.h1, h.h2, n, bytes)
    IN AddToTable(r.c, h.h1, h.h2, n)

InsertBytesNB(s, bytes, n) ==
    LET h == Sum128(bytes)
        r == queryAddTopNB(s, h.h1, h.h2, n, bytes)
    IN IF r.ok THEN r.c ELSE AddToTable(r.c, h.h1, h.h2, n)

(***************************************************************************)
(* Query.  A result is [panic, v]: panic is a run-time panic of the Go     *)
(* code (integer division by zero, index out of range).                    *)
(***************************************************************************)
RECURSIVE InsertSorted(_, _)
InsertSorted(sq, x) ==
    IF sq = <<>> THEN <<x>>
    ELSE IF x <= Head(sq) THEN <<x>> \o sq
    ELSE <<Head(sq)>> \o InsertSorted(Tail(sq), x)

\* sort.Sort(sortutil.Uint32Slice(vals)): ascending
RECURSIVE SortAsc(_)
SortAsc(sq) == IF sq = <<>> THEN <<>> ELSE InsertSorted(SortAsc(Tail(sq)), Head(sq))

\* the cell of 0-based row i hit by (h1, h2)
Cell(s, h1, h2, i) == s.table[i + 1][Column(s, h1, h2, i) + 1]

\* noise := (c.count - uint64(c.table[i][j])) / (uint64(c.width) - 1)
Noise(s, cell) == Sub64(s.count, cell) \div (s.width - 1)

\* vals[i] of queryHashValue, before sorting
NoiseCorrected(s, h1, h2) ==
    [k \in 1..s.depth |->
        LET cell == Cell(s, h1, h2, k - 1)
            noise == Noise(s, cell)
        IN IF cell < noise THEN 0 ELSE Sub32(cell, U32(noise))]

\* min over the rows of the raw cells, starting from math.MaxUint32
MinCell(s, h1, h2) ==
    LET cells == {Cell(s, h1, h2, i) : i \in 0..(s.depth - 1)}
    IN CHOOSE m \in cells \cup {M32 - 1} : \A x \in cells \cup {M32 - 1} : m <= x

\* res := vals[(d-1)/2] + (vals[d/2]-vals[(d-1)/2])/2; if res > min { res = min }
CappedMedian(s, h1, h2) ==
    LET vals == SortAsc(NoiseCorrected(s, h1, h2))
        lo == vals[((s.depth - 1) \div 2) + 1]
        hi == vals[(s.depth \div 2) + 1]
        res == Add32(lo, Sub32(hi, lo) \div 2)
    IN Min(res, MinCell(s, h1, h2))

\* copy A: cnt < 2*(c.count/uint64(c.width)) && c.defaultValue > 0, in uint64
considerDefValA(s, cnt) ==
    cnt < Mul64(2, s.count \div s.width) /\ s.defaultValue > 0

\* copy B: res < 2*uint32((c.count/uint64(c.width))) && c.defaultValue > 0, in uint32
considerDefValB(s, res) ==
    res < U32(2 * U32(s.count \div s.width)) /\ s.defaultValue > 0

queryHashValueA(s, h1, h2) ==
    IF s.width = 1 THEN [panic |-> TRUE, v |-> 0]
    ELSE LET res == CappedMedian(s, h1, h2)
         IN [panic |-> FALSE,
             v |-> IF considerDefValA(s, res) THEN s.defaultValue ELSE res]

queryHashValueB(s, h1, h2) ==
    IF s.width = 1 THEN [panic |-> TRUE, v |-> 0]
    ELSE LET res == CappedMedian(s, h1, h2)
         IN [panic |-> FALSE,
             v |-> IF considerDefValB(s, res) THEN s.defaultValue ELSE res]

QueryBytesA(s, d) ==
    LET h == Sum128(d)
        t == queryTopNA(s, h.h1, h.h2, d)
    IN IF t.ok THEN [panic |-> FALSE, v |-> t.count]
       ELSE queryHashValueA(s, h.h1, h.h2)

QueryBytesB(s, d) ==
    LET h == Sum128(d)
        t == queryTopNB(s, h.h1, h.h2, d)
    IN IF t.ok THEN [panic |-> FALSE, v |-> t.count]
       ELSE queryHashValueB(s, h.h1, h.h2)

(***************************************************************************)
(* MergeCMSketch.  A result is [c, err].                                   *)
(***************************************************************************)
ErrDimension == "Dimensions of Count-Min Sketch should be the same"
ErrTopN == "CMSketch with Top-N does not supports merge"

\* mutant: only the receiver's Top-N index is looked at
MergeCMSketchReceiverOnly(s, r) ==
    IF s.depth # r.depth \/ s.width # r.width THEN [c |-> s, err |-> ErrDimension]
    ELSE IF ~s.topNnil THEN [c |-> s, err |-> ErrTopN]
    ELSE [c |-> [s EXCEPT !.count = Add64(s.count, r.count),
                          !.table = [i \in 1..Len(s.table) |->
                                       [j \in 1..Len(s.table[i]) |->
                                          Add32(s.table[i][j], r.table[i][j])]]],
          err |-> ""]

\* mutant: the counters saturate instead of wrapping
MergeCMSketchSaturating(s, r) ==
    IF s.depth # r.depth \/ s.width # r.width THEN [c |-> s, err |-> ErrDimension]
    ELSE IF ~s.topNnil \/ ~r.topNnil THEN [c |-> s, err |-> ErrTopN]
    ELSE [c |-> [s EXCEPT !.count = Add64(s.count, r.count),
                          !.table = [i \in 1..Len(s.table) |->
                                       [j \in 1..Len(s.table[i]) |->
                                          Min(s.table[i][j] + r.table[i][j], M32 - 1)]]],
          err |-> ""]

\* mutant: the argument's count is not added to the receiver's
MergeCMSketchKeepCount(s, r) ==
    IF s.depth # r.depth \/ s.width # r.width THEN [c |-> s, err |-> ErrDimension]
    ELSE IF ~s.topNnil \/ ~r.topNnil THEN [c |-> s, err |-> ErrTopN]
    ELSE [c |-> [s EXCEPT !.table = [i \in 1..Len(s.table) |->
                                       [j \in 1..Len(s.table[i]) |->
                                          Add32(s.table[i][j], r.table[i][j])]]],
          err |-> ""]

MergeCMSketch(s, r) ==
    IF s.depth # r.depth \/ s.width # r.width
    THEN [c |-> s, err |-> ErrDimension]
    ELSE IF ~s.topNnil \/ ~r.topNnil
    THEN [c |-> s, err |-> ErrTopN]
    ELSE [c |-> [s EXCEPT !.count = Add64(s.count, r.count),
                          !.table = [i \in 1..Len(s.table) |->
                                       [j \in 1..Len(s.table[i]) |->
                                          Add32(s.table[i][j], r.table[i][j])]]],
          err |-> ""]

(***************************************************************************)
(* The builder of copy A: newTopNHelper, buildCMSWithTopN,                 *)
(* calculateDefaultVal.  A sample is its frequency map counter: key ->     *)
(* number of occurrences (0: not sampled).  order is the order in which    *)
(* `range helper.counter` visits the keys of the map, which Go leaves open.*)
(***************************************************************************)
\* const topNThreshold
topNThreshold == 10

RECURSIVE SumOver(_, _)
SumOver(f, S) ==
    IF S = {} THEN 0
    ELSE LET x == CHOOSE x \in S : TRUE IN f[x] + SumOver(f, S \ {x})

Sampled(counter) == {k \in DOMAIN counter : counter[k] > 0}

\* len(data)
SampleSize(counter) == SumOver(counter, Sampled(counter))

RECURSIVE SortedOf(_, _)
SortedOf(counter, S) ==
    IF S = {} THEN <<>>
    ELSE LET x == CHOOSE x \in S : TRUE
         IN InsertSorted(SortedOf(counter, S \ {x}), counter[x])

Reverse(sq) == [i \in 1..Len(sq) |-> sq[Len(sq) + 1 - i]]

\* sort.Slice(sorted, func(i, j int) bool { return sorted[i] > sorted[j] })
SortedDesc(counter) == Reverse(SortedOf(counter, Sampled(counter)))

\* mutant: the prefix is never extended beyond numTop positions
CutoffLoopNoExtend(sorted, numTop, i, lastV, sumTopN) ==
    [last |-> IF numTop = 0 THEN 0 ELSE sorted[numTop],
     sumTopN |-> SumOver(sorted, 1..numTop)]

\* the loop of newTopNHelper from position i (0-based) on: [last, sumTopN]
RECURSIVE CutoffLoop(_, _, _, _, _)
CutoffLoop(sorted, numTop, i, lastV, sumTopN) ==
    IF ~(i < Len(sorted) /\ i < U32(numTop * 2)) THEN [last |-> lastV, sumTopN |-> sumTopN]
    ELSE IF i >= numTop /\ Mul64(sorted[i + 1], 3) < Mul64(sorted[numTop], 2)
                        /\ lastV # sorted[i + 1]
    THEN [last |-> lastV, sumTopN |-> sumTopN]
    ELSE CutoffLoop(sorted, numTop, i + 1, sorted[i + 1], Add64(sumTopN, sorted[i + 1]))

newTopNHelper(counter, numTop) ==
    LET sorted == SortedDesc(counter)
        sampleNDV == Len(sorted)
        n == Min(sampleNDV, numTop)
        cut == CutoffLoop(sorted, n, 0, 0, 0)
    IN [sampleSize |-> SampleSize(counter), numTop |-> n, counter |-> counter,
        sorted |-> sorted,
        onlyOnceItems |-> Cardinality({k \in Sampled(counter) : counter[k] = 1}),
        sumTopN |-> cut.sumTopN, lastVal |-> cut.last]

\* the second loop of buildCMSWithTopN (and buildTopNMap of copy B): append each
\* entry with non-nil data to the bucket of its h1
RECURSIVE buildTopNMap(_, _, _)
buildTopNMap(m, topn, i) ==
    IF i > Len(topn) THEN m
    ELSE IF topn[i].data = NilData THEN buildTopNMap(m, topn, i + 1)
    ELSE LET h == Sum128(topn[i].data)
             vals == IF h.h1 \in DOMAIN m THEN m[h.h1] ELSE <<>>
             e == dataCount(h.h1, h.h2, topn[i].data, topn[i].count)
         IN buildTopNMap((h.h1 :> Append(vals, e)) @@ m, topn, i + 1)

\* the first loop of buildCMSWithTopN over order[i..]: [c, topN, sumTopN]
RECURSIVE PartitionLoop(_, _, _, _, _, _, _, _)
PartitionLoop(helper, enableTopN, ratio, order, i, s, topN, sumTopN) ==
    IF i > Len(order) THEN [c |-> s, topN |-> topN, sumTopN |-> sumTopN]
    ELSE LET key == order[i]
             cnt == helper.counter[key]
         IN IF enableTopN /\ cnt >= helper.lastVal
            THEN PartitionLoop(helper, enableTopN, ratio, order, i + 1, s,
                               Append(topN, dataCount(0, 0, key, Mul64(cnt, ratio))),
                               Add64(sumTopN, Mul64(cnt, ratio)))
            ELSE PartitionLoop(helper, enableTopN, ratio, order, i + 1,
                               updateBytesWithDeltaA(s, key, Mul64(cnt, ratio)),
                               topN, sumTopN)

\* result [c, helper]: the sketch and the helper as the call leaves it
buildCMSWithTopN(helper, d, w, ratio, order) ==
    LET enableTopN == (helper.sampleSize \div topNThreshold) <= helper.sumTopN
        r == PartitionLoop(helper, enableTopN, ratio, order, 1, NewCMSketch(d, w), <<>>, 0)
    IN IF ~enableTopN
       THEN [c |-> r.c, helper |-> [helper EXCEPT !.sumTopN = r.sumTopN]]
       ELSE [c |-> [r.c EXCEPT !.topNnil = FALSE,
                               !.topN = buildTopNMap(<<>>, r.topN, 1)],
             helper |-> [helper EXCEPT !.sumTopN = r.sumTopN, !.numTop = Len(r.topN)]]

\* mutant: the keys seen once are not taken out of the sample size
calculateDefaultValAllSampled(helper, estimateNDV, ratio, rowCount) ==
    LET sampleNDV == Len(helper.sorted)
    IN IF rowCount <= helper.sumTopN THEN 1
       ELSE IF estimateNDV <= helper.numTop THEN 1
       ELSE IF Add64(estimateNDV, helper.onlyOnceItems) <= sampleNDV THEN 1
       ELSE Sub64(rowCount, Mul64(helper.sampleSize, ratio))
              \div Add64(Sub64(estimateNDV, sampleNDV), helper.onlyOnceItems)

calculateDefaultVal(helper, estimateNDV, ratio, rowCount) ==
    LET sampleNDV == Len(helper.sorted)
    IN IF rowCount <= helper.sumTopN THEN 1
       ELSE IF estimateNDV <= helper.numTop THEN 1
       ELSE IF Add64(estimateNDV, helper.onlyOnceItems) <= sampleNDV THEN 1
       ELSE LET estimateRemainingCount ==
                    Sub64(rowCount, Mul64(Sub64(helper.sampleSize, helper.onlyOnceItems), ratio))
            IN estimateRemainingCount
                 \div Add64(Sub64(estimateNDV, sampleNDV), helper.onlyOnceItems)

\* ratio of calculateEstimateNDV, which is not part of the source at hand:
\* ratio = max(1, rowCount / S)
ScaleRatio(sampleSize, rowCount) ==
    IF rowCount \div sampleSize < 1 THEN 1 ELSE rowCount \div sampleSize

NewCMSketchWithTopNA(d, w, counter, numTop, rowCount, estimateNDV, order) ==
    LET helper == newTopNHelper(counter, numTop)
        ratio == ScaleRatio(helper.sampleSize, rowCount)
        b == buildCMSWithTopN(helper, d, w, ratio, order)
    IN [b.c EXCEPT !.defaultValue = calculateDefaultVal(b.helper, estimateNDV, ratio, rowCount)]

(***************************************************************************)
(* The builder of copy B: NewCMSketchWithTopN -> BuildTopN.  The sample is *)
(* again its frequency map; order is the order in which the two nested     *)
(* loops over counter (h1 -> []cmscount) visit the distinct keys: buckets  *)
(* in the order Go's map iteration picks, the keys of a bucket in the      *)
(* order of their first occurrence in data.  A result is [panic, c].       *)
(***************************************************************************)

\* for i := n; i < ndv && i < n*2; i++ {...}: [newTopN, realTopN]
RECURSIVE ExtendLoopB(_, _, _, _, _, _)
ExtendLoopB(sorted, n, topnCountThreshold, i, newTopN, realTopN) ==
    IF ~(i < Len(sorted) /\ i < U32(n * 2)) THEN [newTopN |-> newTopN, realTopN |-> realTopN]
    ELSE IF Mul64(sorted[i + 1], 2) < topnCountThreshold
    THEN [newTopN |-> newTopN, realTopN |-> realTopN]
    ELSE ExtendLoopB(sorted, n, topnCountThreshold, i + 1, sorted[i + 1], i)

\* the selection loop over order[i..]: [c, topn, topncount, seq]
RECURSIVE SelectLoopB(_, _, _, _, _, _, _, _, _, _)
SelectLoopB(counter, realTopN, threshold, ratio, order, i, s, topn, topncount, seq) ==
    IF i > Len(order) THEN [c |-> s, topn |-> topn, topncount |-> topncount]
    ELSE LET key == order[i]
             h == Sum128(key)
             cnt == counter[key]
         IN IF seq < realTopN /\ cnt >= threshold
            THEN SelectLoopB(counter, realTopN, threshold, ratio, order, i + 1, s,
                             [topn EXCEPT ![seq + 1] = dataCount(h.h1, h.h2, key, Mul64(cnt, ratio))],
                             Add64(topncount, cnt), seq + 1)
            ELSE SelectLoopB(counter, realTopN, threshold, ratio, order, i + 1,
                             InsertBytesNB(s, key, Mul64(cnt, ratio)),
                             topn, topncount, seq)

\* for i := range topn { c.InsertBytesN(topn[i].data, topn[i].count*ratio) }
RECURSIVE ReinsertLoopB(_, _, _, _)
ReinsertLoopB(s, topn, ratio, i) ==
    IF i > Len(topn) THEN s
    ELSE ReinsertLoopB(InsertBytesNB(s, topn[i].data, Mul64(topn[i].count, ratio)),
                       topn, ratio, i + 1)

\* the tail of BuildTopN: c.defaultValue
DefaultValueB(total, topncount, ratio, ndv, realTopN, sampleSize) ==
    LET countWithoutTopN == Sub64(total, Mul64(topncount, ratio))
        ndvWithoutTopN == Sub32(ndv, realTopN)
        sampleSizeWithoutTopN == Sub64(sampleSize, topncount)
    IN IF total < Mul64(topncount, ratio) THEN 1
       ELSE IF sampleSizeWithoutTopN = 0 THEN 1
       ELSE LET estimateNDV == Mul64(ndvWithoutTopN, countWithoutTopN) \div sampleSizeWithoutTopN
            IN IF estimateNDV = 0 THEN 1 ELSE countWithoutTopN \div estimateNDV

BuildTopN(s, counter, n0, topnThreshold, total, order) ==
    LET sampleSize == SampleSize(counter)
        ratio == IF total < sampleSize THEN 1 ELSE total \div sampleSize
        sorted == SortedDesc(counter)
        ndv == Len(sorted)
        n == IF n0 > ndv THEN ndv ELSE n0
    IN IF sampleSize = 0 \/ n = 0 THEN [panic |-> TRUE, c |-> s]
       ELSE LET ext == ExtendLoopB(sorted, n, sorted[n], n, sorted[n], n)
                sel == SelectLoopB(counter, ext.realTopN, ext.newTopN, ratio, order, 1, s,
                                   [k \in 1..ext.realTopN |-> dataCount(0, 0, NilData, 0)], 0, 0)
                built == IF (sampleSize \div topnThreshold) > sel.topncount
                         THEN ReinsertLoopB(sel.c, sel.topn, ratio, 1)
                         ELSE [sel.c EXCEPT !.topNnil = FALSE,
                                            !.topN = buildTopNMap(<<>>, sel.topn, 1)]
            IN [panic |-> FALSE,
                c |-> [built EXCEPT !.defaultValue =
                          DefaultValueB(total, sel.topncount, ratio, ndv, ext.realTopN, sampleSize)]]

NewCMSketchWithTopNB(d, w, counter, n, total, order) ==
    BuildTopN(NewCMSketch(d, w), counter, n, topNThreshold, total, order)

(***************************************************************************)
(* Codec.  A tipb.CMSketch message is [Rows, TopNnil, TopN]: Rows a        *)
(* sequence of rows of counters, TopN a sequence of [Data, Count] and      *)
(* TopNnil the nil slice.  A blob is [nil, rows, topn].  Marshal writes    *)
(* the repeated fields element by element and a Data field only when it is *)
(* not nil, so Unmarshal gives a nil TopN for a message without Top-N      *)
(* elements and a nil Data for an element written without one.             *)
(***************************************************************************)
NilBlob == [nil |-> TRUE, rows |-> <<>>, topn |-> <<>>]

Marshal(p) == [nil |-> FALSE, rows |-> p.Rows, topn |-> p.TopN]

Unmarshal(data) ==
    [Rows |-> data.rows, TopNnil |-> Len(data.topn) = 0, TopN |-> data.topn]

\* the rows of the message, as both copies fill them
ProtoRows(s) == [i \in 1..Len(s.table) |-> [j \in 1..Len(s.table[i]) |-> s.table[i][j]]]

\* copy A: the table only
CMSketchToProtoA(s) == [Rows |-> ProtoRows(s), TopNnil |-> TRUE, TopN |-> <<>>]

\* all entries of the map, bucket by bucket in the order `range c.topnindex` picks
RECURSIVE EntriesInOrder(_, _, _)
EntriesInOrder(s, border, i) ==
    IF i > Len(border) THEN <<>>
    ELSE s.topN[border[i]] \o EntriesInOrder(s, border, i + 1)

\* copy B: protoSketch.TopN = make([]*tipb.CMSketchTopN, len(c.topnindex)) has one
\* slot per bucket; protoSketch.TopN[seq] with seq counting the entries is out
\* of range as soon as a bucket holds two entries.  Result [panic, p].
CMSketchToProtoB(s, border) ==
    IF s.topNnil
    THEN [panic |-> FALSE, p |-> [Rows |-> ProtoRows(s), TopNnil |-> TRUE, TopN |-> <<>>]]
    ELSE LET es == EntriesInOrder(s, border, 1)
         IN IF Len(es) > Cardinality(DOMAIN s.topN)
            THEN [panic |-> TRUE, p |-> [Rows |-> ProtoRows(s), TopNnil |-> FALSE, TopN |-> <<>>]]
            ELSE [panic |-> FALSE,
                  p |-> [Rows |-> ProtoRows(s), TopNnil |-> FALSE,
                         TopN |-> [k \in 1..Len(es) |->
                                     [Data |-> es[k].data, Count |-> es[k].count]]]]

\* the table loop of CMSketchFromProto: c.count = 0 at the start of every row
RECURSIVE RowSum(_, _)
RowSum(row, j) == IF j > Len(row) THEN 0 ELSE row[j] + RowSum(row, j + 1)

\* mutant: the count is taken from the first row
TableFromProtoFirstRow(p) ==
    [NewCMSketch(Len(p.Rows), Len(p.Rows[1]))
       EXCEPT !.table = [i \in 1..Len(p.Rows) |-> p.Rows[i]],
              !.count = U64(RowSum(p.Rows[1], 1))]

TableFromProto(p) ==
    [NewCMSketch(Len(p.Rows), Len(p.Rows[1]))
       EXCEPT !.table = [i \in 1..Len(p.Rows) |-> p.Rows[i]],
              !.count = U64(RowSum(p.Rows[Len(p.Rows)], 1))]

CMSketchFromProtoA(p) == TableFromProto(p)

\* mutant: an element without Data is skipped instead of failing the decode
CMSketchFromProtoSkipping(p) ==
    LET s == TableFromProto(p)
    IN IF p.TopNnil THEN [c |-> s, err |-> ""]
       ELSE LET topn == [k \in 1..Len(p.TopN) |->
                            LET h == Sum128(p.TopN[k].Data)
                            IN dataCount(h.h1, h.h2, p.TopN[k].Data, p.TopN[k].Count)]
            IN [c |-> [s EXCEPT !.topNnil = FALSE, !.topN = buildTopNMap(<<>>, topn, 1)],
                err |-> ""]

\* copy B: result [c, err]
CMSketchFromProtoB(p) ==
    LET s == TableFromProto(p)
    IN IF p.TopNnil THEN [c |-> s, err |-> ""]
       ELSE IF \E k \in 1..Len(p.TopN) : p.TopN[k].Data = NilData
       THEN [c |-> NilSketch, err |-> "Broken data"]
       ELSE LET topn == [k \in 1..Len(p.TopN) |->
                            LET h == Sum128(p.TopN[k].Data)
                            IN dataCount(h.h1, h.h2, p.TopN[k].Data, p.TopN[k].Count)]
            IN [c |-> [s EXCEPT !.topNnil = FALSE, !.topN = buildTopNMap(<<>>, topn, 1)],
                err |-> ""]

\* copy A: result [panic, data, topn]; no Top-N is written
EncodeCMSketch(s) ==
    IF s.nil \/ s.count = 0 THEN [panic |-> FALSE, data |-> NilBlob, topnnil |-> TRUE, topn |-> <<>>]
    ELSE [panic |-> FALSE, data |-> Marshal(CMSketchToProtoA(s)), topnnil |-> TRUE, topn |-> <<>>]

\* copy A: result [c, err]
DecodeCMSketch(data) ==
    IF data.nil THEN [c |-> NilSketch, err |-> ""]
    ELSE LET p == Unmarshal(data)
         IN IF Len(p.Rows) = 0 THEN [c |-> NilSketch, err |-> ""]
            ELSE [c |-> CMSketchFromProtoA(p), err |-> ""]

\* copy B: result [panic, data, topnnil, topn]
encodeCMSketch(s, border) ==
    IF s.nil \/ s.count = 0 THEN [panic |-> FALSE, data |-> NilBlob, topnnil |-> TRUE, topn |-> <<>>]
    ELSE LET r == CMSketchToProtoB(s, border)
         IN IF r.panic THEN [panic |-> TRUE, data |-> NilBlob, topnnil |-> TRUE, topn |-> <<>>]
            ELSE IF r.p.TopNnil
            THEN [panic |-> FALSE, data |-> Marshal(r.p), topnnil |-> TRUE, topn |-> <<>>]
            ELSE [panic |-> FALSE,
                  data |-> Marshal([r.p EXCEPT !.TopN = [k \in 1..Len(r.p.TopN) |->
                                        [r.p.TopN[k] EXCEPT !.Data = NilData]]]),
                  topnnil |-> FALSE,
                  topn |-> [k \in 1..Len(r.p.TopN) |-> r.p.TopN[k].Data]]

\* copy B: result [c, err]
decodeCMSketch(data, topn) ==
    IF data.nil THEN [c |-> NilSketch, err |-> ""]
    ELSE LET p == Unmarshal(data)
         IN IF Len(p.Rows) = 0 THEN [c |-> NilSketch, err |-> ""]
            ELSE IF Len(topn) = Len(p.TopN)
            THEN CMSketchFromProtoB([p EXCEPT !.TopN = [k \in 1..Len(p.TopN) |->
                                          [p.TopN[k] EXCEPT !.Data = topn[k]]]])
            ELSE CMSketchFromProtoB(p)

(***************************************************************************)
(* Equal.                                                                  *)
(***************************************************************************)
TablesEqual(s, r) ==
    \A i \in 1..Len(s.table) : \A j \in 1..Len(s.table[i]) : s.table[i][j] = r.table[i][j]

\* copy A: dimensions, count and table
EqualA(s, r) ==
    IF s.nil \/ r.nil THEN s.nil /\ r.nil
    ELSE IF s.width # r.width \/ s.depth # r.depth \/ s.count # r.count THEN FALSE
    ELSE TablesEqual(s, r)

\* copy B: also defaultValue and the Top-N maps
EqualB(s, r) ==
    IF s.nil \/ r.nil THEN s.nil /\ r.nil
    ELSE IF s.width # r.width \/ s.depth # r.depth \/ s.count # r.count
            \/ s.defaultValue # r.defaultValue THEN FALSE
    ELSE IF ~TablesEqual(s, r) THEN FALSE
    ELSE IF Cardinality(DOMAIN r.topN) > 0 \/ Cardinality(DOMAIN s.topN) > 0
    THEN /\ Cardinality(DOMAIN r.topN) = Cardinality(DOMAIN s.topN)
         /\ \A k \in DOMAIN s.topN :
              /\ k \in DOMAIN r.topN
              /\ Len(s.topN[k]) = Len(r.topN[k])
              /\ \A i \in 1..Len(s.topN[k]) : \E j \in 1..Len(r.topN[k]) :
                    /\ s.topN[k][i].h2 = r.topN[k][j].h2
                    /\ s.topN[k][i].data = r.topN[k][j].data
                    /\ s.topN[k][i].count = r.topN[k][j].count
    ELSE TRUE

(***************************************************************************)
(* The state machine.                                                      *)
(***************************************************************************)
Depths == 1..MaxDepth
Widths == 1..MaxWidth

\* the samples: frequency maps over Keys with at least one occurrence
Counters == {f \in [Keys -> 0..MaxCnt] : \E k \in Keys : f[k] > 0}

\* the orders in which a set of keys can be visited
Orders(S) ==
    {sq \in [1..Cardinality(S) -> S] : \A i, j \in 1..Cardinality(S) : i # j => sq[i] # sq[j]}

\* copy B visits the keys bucket by bucket: keys with the same h1 are neighbours
BucketWise(sq) ==
    \A i, j \in 1..Len(sq) :
        (i < j /\ Sum128(sq[i]).h1 = Sum128(sq[j]).h1)
            => \A k \in i..j : Sum128(sq[k]).h1 = Sum128(sq[i]).h1

RowCounts(S) == {S, MaxRatio * S}

NoOp == [op |-> "none", key |-> NilData, mode |-> "", pre |-> NilSketch, prerc |-> NilSketch,
         res |-> NilSketch, err |-> "", panic |-> FALSE, val |-> 0]

NoWire == [present |-> FALSE, src |-> NilSketch, panic |-> FALSE, data |-> NilBlob,
           topnnil |-> TRUE, topn |-> <<>>]

NoArgs == [call |-> "none"]

\* NewCMSketchWithTopN of copy v: [panic, c]
NewCMSketchWithTopN(v, d, w, f, n, total, ndv, o) ==
    IF v = "A" THEN [panic |-> FALSE, c |-> NewCMSketchWithTopNA(d, w, f, n, total, ndv, o)]
    ELSE NewCMSketchWithTopNB(d, w, f, n, total, o)

\* estimateNDV of calculateEstimateNDV, which is not part of the source at hand:
\* some number of distinct values, not below the number seen in the sample
EstimateNDVs(f) == {Cardinality(Sampled(f)), Cardinality(Sampled(f)) + 2}

\* the sketches NewCMSketchWithTopN returns for the samples F and the targets N
\* (a call that panics returns none)
BuiltSketches(v, F, N) ==
    UNION {UNION {{b.c : b \in {x \in {NewCMSketchWithTopN(v, d, w, f, n, total, ndv, o) :
                                          d \in Depths, w \in Widths, n \in N,
                                          total \in RowCounts(SampleSize(f)),
                                          ndv \in EstimateNDVs(f)} : ~x.panic}} :
                  o \in {x \in Orders(Sampled(f)) : v = "B" => BucketWise(x)}} :
           f \in F}

\* NewCMSketch(d, w)
InitNew ==
    /\ \E d \in Depths, w \in Widths : c = NewCMSketch(d, w)
    /\ hist = [by |-> "NewCMSketch", ops |-> {}]

\* NewCMSketchWithTopN(d, w, data, numTop, rowCount)
InitWithTopN ==
    /\ c \in BuiltSketches(ver, Counters, 0..MaxNumTop)
    /\ hist = [by |-> "NewCMSketchWithTopN", ops |-> {}]

Init ==
    /\ ver \in {"A", "B"}
    /\ (InitNew \/ InitWithTopN)
    /\ rc = NilSketch
    /\ last = NoOp
    /\ wire = NoWire
    /\ nops = 0
    /\ args = NoArgs

InsertBytes(k) ==
    /\ nops < MaxOps
    /\ c' = IF ver = "A" THEN updateBytesWithDeltaA(c, k, 1) ELSE InsertBytesNB(c, k, 1)
    /\ last' = [NoOp EXCEPT !.op = "InsertBytes", !.key = k, !.pre = c]
    /\ hist' = [hist EXCEPT !.ops = @ \cup {"InsertBytes"}]
    /\ nops' = nops + 1
    /\ UNCHANGED <<ver, rc, wire, args>>

QueryBytes(k) ==
    /\ nops < MaxOps
    /\ LET r == IF ver = "A" THEN QueryBytesA(c, k) ELSE QueryBytesB(c, k)
       IN last' = [NoOp EXCEPT !.op = "QueryBytes", !.key = k, !.pre = c,
                               !.panic = r.panic, !.val = r.v]
    /\ nops' = nops + 1
    /\ UNCHANGED <<ver, c, rc, wire, hist, args>>

Encode ==
    /\ nops < MaxOps
    /\ \E border \in Orders(DOMAIN c.topN) :
         LET r == IF ver = "A" THEN EncodeCMSketch(c) ELSE encodeCMSketch(c, border)
         IN /\ wire' = [present |-> TRUE, src |-> c, panic |-> r.panic, data |-> r.data,
                        topnnil |-> r.topnnil, topn |-> r.topn]
            /\ last' = [NoOp EXCEPT !.op = "Encode", !.pre = c, !.panic = r.panic]
    /\ nops' = nops + 1
    /\ UNCHANGED <<ver, c, rc, hist, args>>

\* the payload lists a caller can hand to Decode with the blob of wire
Payloads ==
    [threaded |-> wire.topn,
     absent |-> <<>>,
     short |-> IF Len(wire.topn) = 0 THEN <<>> ELSE SubSeq(wire.topn, 1, Len(wire.topn) - 1),
     hole |-> IF Len(wire.topn) = 0 THEN <<>> ELSE [wire.topn EXCEPT ![1] = NilData]]

Decode(mode) ==
    /\ nops < MaxOps
    /\ wire.present /\ ~wire.panic
    /\ LET r == IF ver = "A" THEN DecodeCMSketch(wire.data)
                ELSE decodeCMSketch(wire.data, Payloads[mode])
       IN last' = [NoOp EXCEPT !.op = "Decode", !.mode = mode, !.pre = wire.src,
                               !.res = r.c, !.err = r.err]
    /\ nops' = nops + 1
    /\ UNCHANGED <<ver, c, rc, wire, hist, args>>

Next ==
    \/ \E k \in Keys : InsertBytes(k)
    \/ \E k \in Keys : QueryBytes(k)
    \/ Encode
    \/ \E mode \in {"threaded", "absent", "short", "hole"} : Decode(mode)

Spec == Init /\ [][Next]_vars

(***************************************************************************)
(* Merging, as AnalyzeIndexExec.buildStatsFromResult does it: the receiver *)
(* is merged with the sketches decoded from the responses of the storage   *)
(* nodes, each built there by NewCMSketch and InsertBytes.                 *)
(***************************************************************************)
RECURSIVE InsertTimes(_, _, _, _)
InsertTimes(v, s, k, t) ==
    IF t = 0 THEN s
    ELSE InsertTimes(v, IF v = "A" THEN updateBytesWithDeltaA(s, k, 1) ELSE InsertBytesNB(s, k, 1),
                     k, t - 1)

\* statistics.CMSketchFromProto(resp.Cms) for the sketch of a node that saw key k t times
ResponseSketch(v, d, w, k, t) ==
    LET p == CMSketchToProtoA(InsertTimes(v, NewCMSketch(d, w), k, t))
    IN IF v = "A" THEN CMSketchFromProtoA(p) ELSE CMSketchFromProtoB(p).c

ResponseSketches(v) ==
    {ResponseSketch(v, d, w, k, t) : d \in Depths, w \in Widths, k \in Keys, t \in {1, M32 - 1}}

\* the samples that hold one key, once
UnitCounters == {f \in Counters : SampleSize(f) = 1}

InitMerge ==
    /\ ver \in {"A", "B"}
    /\ \/ InitNew
       \/ /\ c \in BuiltSketches(ver, UnitCounters, {1})
          /\ hist = [by |-> "NewCMSketchWithTopN", ops |-> {}]
    /\ rc \in ResponseSketches(ver) \cup BuiltSketches(ver, UnitCounters, {1})
    /\ last = NoOp
    /\ wire = NoWire
    /\ nops = 0
    /\ args = NoArgs

Merge ==
    /\ nops < MaxOps
    /\ LET r == MergeCMSketch(c, rc)
       IN /\ c' = r.c
          /\ last' = [NoOp EXCEPT !.op = "MergeCMSketch", !.pre = c, !.prerc = rc, !.err = r.err]
    /\ hist' = [hist EXCEPT !.ops = @ \cup {"MergeCMSketch"}]
    /\ nops' = nops + 1
    /\ UNCHANGED <<ver, rc, wire, args>>

NextMerge ==
    \/ \E k \in Keys : InsertBytes(k)
    \/ Merge

SpecMerge == InitMerge /\ [][NextMerge]_vars

(***************************************************************************)
(* Decoding a message that comes from the store: any table of d rows of w  *)
(* counters, with or without Top-N elements, and any payload list.         *)
(***************************************************************************)
WireCounters == {0, M32 - 1}
WireData == {NilData, 1, 2}

WireTables == UNION {[1..d -> [1..w -> WireCounters]] : d \in Depths, w \in 1..2}

WireLists == {<<>>} \cup {<<x>> : x \in WireData} \cup {<<x, y>> : x, y \in WireData}

InitWire ==
    /\ ver \in {"A", "B"}
    /\ \E rows \in WireTables, datas \in WireLists, topn \in WireLists :
         wire = [present |-> TRUE, src |-> NilSketch, panic |-> FALSE,
                 data |-> Marshal([Rows |-> rows, TopNnil |-> Len(datas) = 0,
                                   TopN |-> [k \in 1..Len(datas) |->
                                               [Data |-> datas[k], Count |-> k]]]),
                 topnnil |-> Len(topn) = 0, topn |-> topn]
    /\ c = NilSketch
    /\ rc = NilSketch
    /\ hist = [by |-> "none", ops |-> {}]
    /\ last = NoOp
    /\ nops = 0
    /\ args = NoArgs

\* the payload list of wire is any list already: it is handed over as it is
NextWire == Decode("threaded")

SpecWire == InitWire /\ [][NextWire]_vars

(***************************************************************************)
(* The builder on its own: NewCMSketchWithTopN(d, w, data, numTop,         *)
(* rowCount) of either copy, and the exported BuildTopN(data, n,           *)
(* topnThreshold, total) of copy B called on a fresh sketch.  args holds   *)
(* the arguments of the call; the heavy samples hold one key topNThreshold *)
(* times, so that the sample reaches topNThreshold elements.               *)
(***************************************************************************)
HeavyCounters ==
    {[k \in Keys |-> IF k = h THEN topNThreshold ELSE IF k = l THEN 1 ELSE 0] :
        h \in Keys, l \in Keys}

BuildCounters == Counters \cup HeavyCounters

\* estimateNDV of calculateEstimateNDV, which is not part of the source at hand:
\* the builder is checked for an estimate below, at and beyond the sample's NDV
BuildNDVs(f) ==
    {Cardinality(Sampled(f)) - 1, Cardinality(Sampled(f)), Cardinality(Sampled(f)) + 2}

\* the dimensions the builder is run with
BuildDepths == {1, MaxDepth}
BuildWidths == {2, MaxWidth}

ArgsFor(v, call, f, thrs) ==
    {[call |-> call, d |-> d, w |-> w, data |-> f, numTop |-> n, rowCount |-> t,
      estimateNDV |-> e, order |-> o, thr |-> th] :
        d \in BuildDepths, w \in BuildWidths, n \in 0..MaxNumTop,
        t \in RowCounts(SampleSize(f)),
        e \in (IF v = "A" THEN BuildNDVs(f) ELSE {0}),
        o \in {x \in Orders(Sampled(f)) : v = "B" => BucketWise(x)},
        th \in thrs}

BuildArgs(v) ==
    UNION {ArgsFor(v, "NewCMSketchWithTopN", f, {topNThreshold}) : f \in BuildCounters}
      \cup (IF v = "B" THEN UNION {ArgsFor(v, "BuildTopN", f, {1}) : f \in Counters} ELSE {})

InitBuild ==
    /\ ver \in {"A", "B"}
    /\ args \in BuildArgs(ver)
    /\ c = NilSketch
    /\ rc = NilSketch
    /\ hist = [by |-> "none", ops |-> {}]
    /\ last = NoOp
    /\ wire = NoWire
    /\ nops = 0

\* c := NewCMSketchWithTopN(d, w, data, numTop, rowCount)
Construct ==
    /\ last.op = "none" /\ args.call = "NewCMSketchWithTopN"
    /\ LET r == NewCMSketchWithTopN(ver, args.d, args.w, args.data, args.numTop,
                                     args.rowCount, args.estimateNDV, args.order)
       IN /\ c' = IF r.panic THEN c ELSE r.c
          /\ last' = [NoOp EXCEPT !.op = "NewCMSketchWithTopN", !.panic = r.panic]
    /\ hist' = [by |-> "NewCMSketchWithTopN", ops |-> {}]
    /\ UNCHANGED <<ver, rc, wire, nops, args>>

\* c := NewCMSketch(d, w); c.BuildTopN(data, n, topnThreshold, total)
BuildTopNCall ==
    /\ last.op = "none" /\ args.call = "BuildTopN" /\ ver = "B"
    /\ LET r == BuildTopN(NewCMSketch(args.d, args.w), args.data, args.numTop, args.thr,
                           args.rowCount, args.order)
       IN /\ c' = IF r.panic THEN c ELSE r.c
          /\ last' = [NoOp EXCEPT !.op = "BuildTopN", !.panic = r.panic]
    /\ hist' = [by |-> "BuildTopN", ops |-> {}]
    /\ UNCHANGED <<ver, rc, wire, nops, args>>

NextBuild == Construct \/ BuildTopNCall

SpecBuild == InitBuild /\ [][NextBuild]_vars

(***************************************************************************)
(* Calibration and copying: setValue, setValueBytes (copy B), Copy.        *)
(***************************************************************************)

\* the values v below 128 for which float64(v)*0.95 + float64(v)*0.05, rounded
\* after each operation, is below v
RoundedDown ==
    {3, 6, 7, 9, 12, 14, 18, 23, 24, 28, 29, 36, 41, 46, 48, 51, 53, 56, 58, 61, 63, 72,
     77, 82, 87, 92, 96, 97, 101, 102, 106, 107, 111, 112, 116, 117, 121, 122, 126, 127}

\* uint64(float64(c.defaultValue)*0.95 + float64(c.defaultValue)*0.05), then 1 for 0.
\* A compiler may fuse the first product into the sum (x*y + z in one rounding),
\* which gives the value itself; unfused, the sum falls just below the values of
\* RoundedDown and the conversion truncates it.
Damped(dv, fused) ==
    LET r == IF ~fused /\ dv \in RoundedDown THEN dv - 1 ELSE dv
    IN IF r = 0 THEN 1 ELSE r

\* mutant: the cells are set, count is left as it was
setValueCellsOnly(v, s, h1, h2, count, fused) ==
    LET q == IF v = "A" THEN queryHashValueA(s, h1, h2) ELSE queryHashValueB(s, h1, h2)
        deltaCount == Sub32(count, U32(q.v))
    IN IF q.panic THEN [panic |-> TRUE, c |-> s]
       ELSE [panic |-> FALSE,
             c |-> [s EXCEPT !.table = [i \in 1..Len(s.table) |->
                                          [j \in 1..s.width |->
                                             IF j = Column(s, h1, h2, i - 1) + 1
                                             THEN Add32(s.table[i][j], deltaCount)
                                             ELSE s.table[i][j]]]]]

\* setValue of copy v: [panic, c]
setValue(v, s, h1, h2, count, fused) ==
    LET q == IF v = "A" THEN queryHashValueA(s, h1, h2) ELSE queryHashValueB(s, h1, h2)
        oriCount == q.v
        dv == IF considerDefValA(s, oriCount) /\ s.defaultValue > 0
              THEN Damped(s.defaultValue, fused) ELSE s.defaultValue
        deltaCount == Sub32(count, U32(oriCount))
    IN IF q.panic THEN [panic |-> TRUE, c |-> s]
       ELSE [panic |-> FALSE,
             c |-> [s EXCEPT !.defaultValue = dv,
                             !.count = Add64(s.count, Sub64(U64(count), oriCount)),
                             !.table = [i \in 1..Len(s.table) |->
                                          [j \in 1..s.width |->
                                             IF j = Column(s, h1, h2, i - 1) + 1
                                             THEN Add32(s.table[i][j], deltaCount)
                                             ELSE s.table[i][j]]]]]

\* copy B: the count of a Top-N key is set in the index, any other in the table
setValueBytes(s, d, count, fused) ==
    LET h == Sum128(d)
        t == queryTopNB(s, h.h1, h.h2, d)
    IN IF t.ok
       THEN [panic |-> FALSE, c |-> queryAddTopNB(s, h.h1, h.h2, Sub64(count, t.count), d).c]
       ELSE setValue("B", s, h.h1, h.h2, U32(count), fused)

\* copy A: count, width, depth and a copy of the table
CopyA(s) ==
    IF s.nil THEN NilSketch
    ELSE [NewCMSketch(s.depth, s.width) EXCEPT !.count = s.count,
             !.table = [i \in 1..s.depth |-> [j \in 1..s.width |-> s.table[i][j]]]]

\* copy B: also a copy of the Top-N map
CopyB(s) ==
    IF s.nil THEN NilSketch
    ELSE [NewCMSketch(s.depth, s.width) EXCEPT !.count = s.count,
             !.table = [i \in 1..s.depth |-> [j \in 1..s.width |-> s.table[i][j]]],
             !.topNnil = s.topNnil,
             !.topN = [k \in DOMAIN s.topN |->
                         [i \in 1..Len(s.topN[k]) |->
                            dataCount(s.topN[k][i].h1, s.topN[k][i].h2,
                                      s.topN[k][i].data, s.topN[k][i].count)]]]

\* the counts a caller sets
SetCounts == {0, M32 - 1}

SetValue(k, n, fused) ==
    /\ nops < MaxOps
    /\ LET r == setValue(ver, c, Sum128(k).h1, Sum128(k).h2, n, fused)
       IN /\ c' = r.c
          /\ last' = [NoOp EXCEPT !.op = "setValue", !.key = k, !.pre = c, !.val = n,
                                  !.panic = r.panic]
    /\ hist' = [hist EXCEPT !.ops = @ \cup {"setValue"}]
    /\ nops' = nops + 1
    /\ UNCHANGED <<ver, rc, wire, args>>

SetValueBytes(k, n, fused) ==
    /\ nops < MaxOps /\ ver = "B"
    /\ LET r == setValueBytes(c, k, n, fused)
       IN /\ c' = r.c
          /\ last' = [NoOp EXCEPT !.op = "setValueBytes", !.key = k, !.pre = c, !.val = n,
                                  !.panic = r.panic]
    /\ hist' = [hist EXCEPT !.ops = @ \cup {"setValueBytes"}]
    /\ nops' = nops + 1
    /\ UNCHANGED <<ver, rc, wire, args>>

\* rc := c.Copy()
Copy ==
    /\ nops < MaxOps
    /\ rc' = IF ver = "A" THEN CopyA(c) ELSE CopyB(c)
    /\ last' = [NoOp EXCEPT !.op = "Copy", !.pre = c, !.res = rc']
    /\ nops' = nops + 1
    /\ UNCHANGED <<ver, c, wire, hist, args>>

\* the samples of at most two distinct keys, each seen once or MaxCnt times
PairCounters ==
    {f \in Counters : Cardinality(Sampled(f)) <= 2 /\ \A k \in Keys : f[k] \in {0, 1, MaxCnt}}

InitStats ==
    /\ ver \in {"A", "B"}
    /\ \/ InitNew
       \/ /\ c \in BuiltSketches(ver, PairCounters, {1})
          /\ hist = [by |-> "NewCMSketchWithTopN", ops |-> {}]
    /\ c.depth = MaxDepth /\ c.width \in BuildWidths
    /\ rc = NilSketch
    /\ last = NoOp
    /\ wire = NoWire
    /\ nops = 0
    /\ args = NoArgs

NextStats ==
    \/ \E k \in Keys : InsertBytes(k)
    \/ \E k \in Keys : QueryBytes(k)
    \/ \E k \in Keys, n \in SetCounts, fused \in BOOLEAN : SetValue(k, n, fused)
    \/ \E k \in Keys, fused \in BOOLEAN : SetValueBytes(k, M32 - 1, fused)
    \/ Copy

SpecStats == InitStats /\ [][NextStats]_vars

(***************************************************************************)
(* The claims.                                                             *)
(***************************************************************************)
Query(v, s, d) == IF v = "A" THEN QueryBytesA(s, d) ELSE QueryBytesB(s, d)
Equal(v, s, r) == IF v = "A" THEN EqualA(s, r) ELSE EqualB(s, r)

\* C1: for every key in the Top-N index QueryBytes(key) returns the count stored
\* for it, and each InsertBytes of a Top-N key raises QueryBytes(key) by exactly 1.
C1_TopNExact ==
    /\ \A e \in TopNEntries(c) : Query(ver, c, e.data) = [panic |-> FALSE, v |-> e.count]
    /\ (last.op = "InsertBytes" /\ last.key \in TopNKeys(last.pre))
          => Query(ver, c, last.key).v = Add64(Query(ver, last.pre, last.key).v, 1)

\* C2: starting from NewCMSketch(d, w), after any sequence of InsertBytes calls
\* (fewer than 2^32 of them, so no counter wraps), the counters of every row sum to count.
C2_RowSums ==
    (hist.by = "NewCMSketch" /\ hist.ops \subseteq {"InsertBytes"} /\ nops < M32)
        => \A i \in 1..c.depth : RowSum(c.table[i], 1) = c.count

C2_Witness ==
    /\ hist.by = "NewCMSketch" /\ hist.ops = {"InsertBytes"}
    /\ c.depth = 2 /\ c.count = 2
    /\ \E j \in 1..c.width : c.table[2][j] = 1

\* C3: MergeCMSketch returns an error when the dimensions differ and when either
\* sketch has a Top-N index; whenever it returns an error, both sketches are
\* exactly what they were before the call.
C3_MergeErrors ==
    last.op = "MergeCMSketch" =>
        /\ (last.pre.depth # last.prerc.depth \/ last.pre.width # last.prerc.width)
              => last.err = ErrDimension
        /\ (~last.pre.topNnil \/ ~last.prerc.topNnil) => last.err \in {ErrDimension, ErrTopN}
        /\ (last.pre.depth = last.prerc.depth /\ last.pre.width = last.prerc.width
              /\ (~last.pre.topNnil \/ ~last.prerc.topNnil)) => last.err = ErrTopN
        /\ last.err # "" => (c = last.pre /\ rc = last.prerc)

C3_Witness ==
    /\ last.op = "MergeCMSketch" /\ last.err = ErrTopN
    /\ last.pre.topNnil /\ ~last.prerc.topNnil /\ last.pre.count > 0
    /\ c = last.pre

\* C4: with equal dimensions and no Top-N index on either side the merge succeeds,
\* count becomes old count + rc.count (uint64), every cell becomes
\* (old cell + rc cell) mod 2^32, and rc is unchanged.
C4_MergeSums ==
    (last.op = "MergeCMSketch" /\ last.pre.depth = last.prerc.depth
       /\ last.pre.width = last.prerc.width /\ last.pre.topNnil /\ last.prerc.topNnil)
        => /\ last.err = ""
           /\ c.count = (last.pre.count + last.prerc.count) % M64
           /\ \A i \in 1..c.depth : \A j \in 1..c.width :
                 c.table[i][j] = (last.pre.table[i][j] + last.prerc.table[i][j]) % M32
           /\ c.depth = last.pre.depth /\ c.width = last.pre.width
           /\ rc = last.prerc

C4_Witness ==
    /\ last.op = "MergeCMSketch" /\ last.err = ""
    /\ \E i \in 1..c.depth : \E j \in 1..c.width :
          /\ last.pre.table[i][j] + last.prerc.table[i][j] >= M32
          /\ c.table[i][j] = last.pre.table[i][j] + last.prerc.table[i][j] - M32
    /\ c.count = last.pre.count + last.prerc.count

\* C5: for every sketch S that can be constructed, Encode(S) returns and decoding
\* its blob with its payload list yields a sketch that is Equal to S.
C5_RoundTrip ==
    /\ last.op = "Encode" => ~last.panic
    /\ (last.op = "Decode" /\ last.mode = "threaded")
          => (last.err = "" /\ Equal(ver, last.pre, last.res))

\* C6: Encode returns an absent payload only when count == 0 and the sketch holds
\* no Top-N entry either; in every other case it emits the table and the Top-N entries.
C6_AbsentOnlyWhenEmpty ==
    (last.op = "Encode" /\ ~last.panic)
        => /\ wire.data.nil <=> (last.pre.count = 0 /\ TopNEntries(last.pre) = {})
           /\ ~wire.data.nil
                 => (/\ wire.data.rows = last.pre.table
                     /\ Len(wire.data.topn) = Cardinality(TopNEntries(last.pre)))

\* C7: for every sketch with a Top-N index (count > 0, so that a payload is
\* written), also when entries share an h1 bucket, Encode produces one wire
\* element and one payload per Top-N entry: element i carries the count of an
\* entry without its data, payload i is the data of the same entry.
C7_OnePerEntry ==
    (ver = "B" /\ last.op = "Encode" /\ ~last.pre.topNnil /\ last.pre.count > 0)
        => /\ ~last.panic
           /\ Len(wire.data.topn) = Cardinality(TopNEntries(last.pre))
           /\ Len(wire.topn) = Cardinality(TopNEntries(last.pre))
           /\ \A i \in 1..Len(wire.data.topn) :
                 /\ wire.data.topn[i].Data = NilData
                 /\ \E e \in TopNEntries(last.pre) :
                       e.data = wire.topn[i] /\ e.count = wire.data.topn[i].Count
           /\ \A e \in TopNEntries(last.pre) : \E i \in 1..Len(wire.topn) : wire.topn[i] = e.data

\* the data of wire element k after the payload list has been re-attached
Reattached(k) ==
    IF Len(wire.topn) = Len(wire.data.topn) THEN wire.topn[k] ELSE wire.data.topn[k].Data

\* C8: Decode fails with BrokenTopN whenever the wire message declares Top-N
\* entries and the data of at least one entry is missing after re-attachment;
\* no sketch is returned then.
C8_BrokenTopN ==
    (ver = "B" /\ last.op = "Decode" /\ Len(wire.data.rows) > 0
       /\ \E k \in 1..Len(wire.data.topn) : Reattached(k) = NilData)
        => (last.err = "Broken data" /\ last.res = NilSketch)

C8_Witness ==
    /\ ver = "B" /\ last.op = "Decode" /\ last.err = "Broken data" /\ last.res.nil
    /\ Len(wire.data.topn) = 2 /\ Len(wire.topn) = 2
    /\ wire.topn[1] # NilData /\ wire.topn[2] = NilData

\* C9 as stated: the decoded count is the sum of the counters of row 0 of the message.
C9_CountIsRowZero ==
    (last.op = "Decode" /\ ~last.res.nil) => last.res.count = RowSum(wire.data.rows[1], 1)

\* C9, amended: the decoded count is the sum of the counters of the last row of
\* the message, also when the rows of the message have different sums.
C9_CountIsLastRow ==
    (last.op = "Decode" /\ ~last.res.nil)
        => last.res.count = RowSum(wire.data.rows[Len(wire.data.rows)], 1)

C9_Witness ==
    /\ last.op = "Decode" /\ ~last.res.nil /\ last.res.depth = 2
    /\ RowSum(wire.data.rows[1], 1) > RowSum(wire.data.rows[2], 1)
    /\ last.res.count = RowSum(wire.data.rows[2], 1)
    /\ last.res.count > 0

\* the reference value of C10 for the key d, in unbounded integers
RefCells(s, d) == [i \in 1..s.depth |-> Cell(s, Sum128(d).h1, Sum128(d).h2, i - 1)]

RefVals(s, d) ==
    SortAsc([i \in 1..s.depth |->
               LET ci == RefCells(s, d)[i]
                   vi == ci - ((s.count - ci) \div (s.width - 1))
               IN IF vi < 0 THEN 0 ELSE vi])

RefRes(s, d) ==
    LET v == RefVals(s, d)
        lo == v[((s.depth - 1) \div 2) + 1]
        hi == v[(s.depth \div 2) + 1]
        cells == {RefCells(s, d)[i] : i \in 1..s.depth}
        m == CHOOSE x \in cells : \A y \in cells : x <= y
    IN Min(lo + ((hi - lo) \div 2), m)

Reference(s, d) ==
    IF RefRes(s, d) < 2 * (s.count \div s.width) /\ s.defaultValue > 0
    THEN s.defaultValue ELSE RefRes(s, d)

\* C10: for a key that is not in the Top-N index QueryBytes returns exactly the
\* reference value, for every depth and every table content (here: already for
\* the tables in which no counter has wrapped, every row summing to count).
C10_Reference ==
    (last.op = "QueryBytes" /\ last.key \notin TopNKeys(last.pre) /\ last.pre.width >= 2
       /\ \A i \in 1..last.pre.depth : RowSum(last.pre.table[i], 1) = last.pre.count)
        => (~last.panic /\ last.val = Reference(last.pre, last.key))

(***************************************************************************)
(* The builder's claims, over SpecBuild.                                   *)
(***************************************************************************)
Built == last.op \in {"NewCMSketchWithTopN", "BuildTopN"} /\ ~last.panic

\* position i (0-based) of the sorted frequencies
At(sorted, i) == sorted[i + 1]

MaxOf(S) == CHOOSE x \in S : \A y \in S : y <= x

\* the positions of the prefix as C11 states it: [0, k), then i in [k, 2k) only
\* while sorted[i]*3 >= sorted[k-1]*2 and sorted[i] # sorted[i-1]
PrefixAsStated(sorted, k) ==
    {i \in 0..(Min(Len(sorted), 2 * k) - 1) :
        \A j \in k..i : /\ At(sorted, j) * 3 >= At(sorted, k - 1) * 2
                         /\ At(sorted, j) # At(sorted, j - 1)}

\* the positions newTopNHelper includes: [0, k), then i in [k, 2k) while
\* sorted[i]*3 >= sorted[k-1]*2 or sorted[i] = sorted[i-1]
PrefixA(sorted, k) ==
    {i \in 0..(Min(Len(sorted), 2 * k) - 1) :
        \A j \in k..i : \/ At(sorted, j) * 3 >= At(sorted, k - 1) * 2
                         \/ At(sorted, j) = At(sorted, j - 1)}

\* the positions BuildTopN walks beyond k: i in [k, 2k) while sorted[i]*2 >= sorted[k-1]
WalkedB(sorted, k) ==
    {i \in k..(Min(Len(sorted), 2 * k) - 1) :
        \A j \in k..i : At(sorted, j) * 2 >= At(sorted, k - 1)}

LastOf(sorted, P) == IF P = {} THEN 0 ELSE At(sorted, MaxOf(P))
SumOf(sorted, P) == SumOver(sorted, {i + 1 : i \in P})

\* C11 as stated: the selected prefix is PrefixAsStated; lastVal is the frequency
\* at its last position and sumTopN the sum of its frequencies (copy B: the
\* cutoff frequency and the Top-N capacity are those of that prefix).
C11_CutoffAsStated ==
    Built =>
        LET sorted == SortedDesc(args.data)
            k == Min(args.numTop, Len(sorted))
            P == PrefixAsStated(sorted, k)
        IN IF ver = "A"
           THEN LET h == newTopNHelper(args.data, args.numTop)
                IN h.lastVal = LastOf(sorted, P) /\ h.sumTopN = SumOf(sorted, P)
           ELSE LET e == ExtendLoopB(sorted, k, sorted[k], k, sorted[k], k)
                IN e.newTopN = LastOf(sorted, P) /\ e.realTopN = Cardinality(P)

\* C11, amended: newTopNHelper extends [0, k) by each position i in [k, 2k) while
\* sorted[i]*3 >= sorted[k-1]*2 or sorted[i] = sorted[i-1]; lastVal is the
\* frequency at the last included position (0 when k = 0), sumTopN the sum of the
\* included frequencies.  BuildTopN walks i in [k, 2k) while sorted[i]*2 >=
\* sorted[k-1]; its cutoff frequency is the one at the last position walked and
\* its Top-N capacity is the index of that position (k when none is walked).
C11_Cutoff ==
    Built =>
        LET sorted == SortedDesc(args.data)
            k == Min(args.numTop, Len(sorted))
        IN IF ver = "A"
           THEN LET h == newTopNHelper(args.data, args.numTop)
                    P == PrefixA(sorted, k)
                IN /\ h.numTop = k
                   /\ h.lastVal = LastOf(sorted, P)
                   /\ h.sumTopN = SumOf(sorted, P)
           ELSE LET e == ExtendLoopB(sorted, k, sorted[k], k, sorted[k], k)
                    W == WalkedB(sorted, k)
                IN /\ e.newTopN = (IF W = {} THEN At(sorted, k - 1) ELSE At(sorted, MaxOf(W)))
                   /\ e.realTopN = (IF W = {} THEN k ELSE MaxOf(W))

\* a sample with a tie behind position k-1: the prefix runs through the tie
C11_Witness ==
    /\ Built /\ ver = "A" /\ args.numTop = 1
    /\ LET sorted == SortedDesc(args.data)
       IN Len(sorted) = 3 /\ sorted[1] = sorted[2]
          /\ newTopNHelper(args.data, args.numTop).sumTopN = sorted[1] + sorted[2]

\* the expansion factor of the pending call
RatioOf(v, f, rowCount) ==
    IF v = "A" THEN ScaleRatio(SampleSize(f), rowCount)
    ELSE IF rowCount < SampleSize(f) THEN 1 ELSE rowCount \div SampleSize(f)

\* the table and count of a d x w sketch to which every key k of T contributed amount[k]
RECURSIVE Contributed(_, _, _)
Contributed(s, amount, T) ==
    IF T = {} THEN s
    ELSE LET k == CHOOSE k \in T : TRUE
         IN Contributed(AddToTable(s, Sum128(k).h1, Sum128(k).h2, amount[k]), amount, T \ {k})

\* cnt * ratio for every key of the sample
Scaled(f, ratio) == [k \in DOMAIN f |-> f[k] * ratio]

\* the unscaled sum of the selected frequencies, as the builder has it when it
\* tests viability
SumTopNOf(v, a) ==
    IF v = "A" THEN newTopNHelper(a.data, a.numTop).sumTopN
    ELSE LET sorted == SortedDesc(a.data)
             n == Min(a.numTop, Len(sorted))
             e == ExtendLoopB(sorted, n, sorted[n], n, sorted[n], n)
         IN SelectLoopB(a.data, e.realTopN, e.newTopN, RatioOf(v, a.data, a.rowCount), a.order,
                        1, NewCMSketch(a.d, a.w),
                        [k \in 1..e.realTopN |-> dataCount(0, 0, NilData, 0)], 0, 0).topncount

Viable(v, a) == (SampleSize(a.data) \div a.thr) <= SumTopNOf(v, a)

\* C12: the builder builds a Top-N index exactly when (S div 10) <= sumTopN; when
\* the test fails the sketch has no Top-N index and every distinct sampled key
\* contributes exactly cnt*ratio to its cell in every row, so count = S*ratio.
C12_Viability ==
    Built =>
        LET ratio == RatioOf(ver, args.data, args.rowCount)
            all == Contributed(NewCMSketch(args.d, args.w), Scaled(args.data, ratio),
                               Sampled(args.data))
        IN /\ ~c.topNnil <=> Viable(ver, args)
           /\ ~Viable(ver, args) =>
                 /\ c.topN = <<>>
                 /\ c.table = all.table
                 /\ c.count = SampleSize(args.data) * ratio

\* the cutoff frequency of the pending call: lastVal of newTopNHelper, the final
\* topnCountThreshold of BuildTopN
LastValOf(v, a) ==
    IF v = "A" THEN newTopNHelper(a.data, a.numTop).lastVal
    ELSE LET sorted == SortedDesc(a.data)
             n == Min(a.numTop, Len(sorted))
         IN ExtendLoopB(sorted, n, sorted[n], n, sorted[n], n).newTopN

\* C13: after the builder has enabled the Top-N index, every distinct sampled key
\* is in exactly one place: it has a Top-N entry, with count cnt*ratio, if and only
\* if cnt >= lastVal, and otherwise it contributed cnt*ratio to the table; no key
\* has both.
C13_OnePlace ==
    (Built /\ ~c.topNnil) =>
        LET ratio == RatioOf(ver, args.data, args.rowCount)
            heavy == {k \in Sampled(args.data) : args.data[k] >= LastValOf(ver, args)}
            rest == Contributed(NewCMSketch(args.d, args.w), Scaled(args.data, ratio),
                                Sampled(args.data) \ TopNKeys(c))
        IN /\ TopNKeys(c) = heavy
           /\ \A k \in heavy :
                 {e \in TopNEntries(c) : e.data = k}
                    = {dataCount(Sum128(k).h1, Sum128(k).h2, k, args.data[k] * ratio)}
           /\ Cardinality(TopNEntries(c)) = Cardinality(heavy)
           /\ c.table = rest.table /\ c.count = rest.count

\* the sum of the counts of the Top-N entries
RECURSIVE SumCounts(_)
SumCounts(E) ==
    IF E = {} THEN 0 ELSE LET e == CHOOSE e \in E : TRUE IN e.count + SumCounts(E \ {e})

OnlyOnce(f) == Cardinality({k \in Sampled(f) : f[k] = 1})

\* C14: the topNHelper builder sets defaultValue by the first matching condition,
\* in this order: 1 if rowCount <= scaledTopN; 1 if estimateNDV <= numTop (the
\* size of the Top-N after the cutoff); 1 if estimateNDV + onlyOnce <= sampleNDV;
\* otherwise (rowCount - (S - onlyOnce)*ratio) div (estimateNDV - sampleNDV +
\* onlyOnce), and the divisor is at least 1 in that branch.
C14_DefaultValue ==
    (Built /\ ver = "A") =>
        LET S == SampleSize(args.data)
            ratio == RatioOf(ver, args.data, args.rowCount)
            scaledTopN == SumCounts(TopNEntries(c))
            numTop == Cardinality(TopNEntries(c))
            sampleNDV == Cardinality(Sampled(args.data))
            onlyOnce == OnlyOnce(args.data)
            divisor == args.estimateNDV - sampleNDV + onlyOnce
        IN IF args.rowCount <= scaledTopN THEN c.defaultValue = 1
           ELSE IF args.estimateNDV <= numTop THEN c.defaultValue = 1
           ELSE IF args.estimateNDV + onlyOnce <= sampleNDV THEN c.defaultValue = 1
           ELSE /\ divisor >= 1
                /\ c.defaultValue = (args.rowCount - (S - onlyOnce) * ratio) \div divisor

\* the last branch, with keys seen once and a value other than 1
C14_Witness ==
    /\ Built /\ ver = "A" /\ c.defaultValue > 1
    /\ OnlyOnce(args.data) > 0
    /\ args.rowCount > SumCounts(TopNEntries(c))
    /\ args.estimateNDV > Cardinality(TopNEntries(c))
    /\ args.estimateNDV + OnlyOnce(args.data) > Cardinality(Sampled(args.data))

(***************************************************************************)
(* The claims on setValue and Copy, over SpecStats.                        *)
(***************************************************************************)
\* the table-side query result for the hash pair of key d
TableSide(v, s, d) ==
    IF v = "A" THEN queryHashValueA(s, Sum128(d).h1, Sum128(d).h2).v
    ELSE queryHashValueB(s, Sum128(d).h1, Sum128(d).h2).v

\* C15: setValue(h1, h2, c') takes ori, the table-side query result for (h1, h2),
\* sets count to count + c' - ori (wrapping) and adds (c' - ori) mod 2^32 to the
\* cell table[i][(h1 + i*h2) mod w] of every row i; no other cell and no Top-N
\* entry changes.
C15_SetValue ==
    (last.op = "setValue" /\ ~last.panic) =>
        LET ori == TableSide(ver, last.pre, last.key)
            h == Sum128(last.key)
        IN /\ c.count = (last.pre.count + last.val - ori) % M64
           /\ \A i \in 1..c.depth : \A j \in 1..c.width :
                 c.table[i][j] =
                    IF j = (((h.h1 + (i - 1) * h.h2) % M64) % c.width) + 1
                    THEN (last.pre.table[i][j] + last.val - ori) % M32
                    ELSE last.pre.table[i][j]
           /\ c.depth = last.pre.depth /\ c.width = last.pre.width
           /\ c.topN = last.pre.topN /\ c.topNnil = last.pre.topNnil

\* a count is set below the table-side result: the difference wraps in every row
C15_Witness ==
    /\ last.op = "setValue" /\ ~last.panic /\ last.val = 0
    /\ TableSide(ver, last.pre, last.key) > 0
    /\ c.depth >= 2 /\ c.count < last.pre.count
    /\ \A i \in 1..c.depth : c.table[i] # last.pre.table[i]
    /\ TopNEntries(c) # {}

\* C16: Copy() of any sketch returns a sketch with the same depth, width, count,
\* defaultValue, table and Top-N entries as the original, so the original is Equal
\* to its copy and QueryBytes gives the same answer on both for every key.
C16_Copy ==
    last.op = "Copy" =>
        /\ last.res.depth = last.pre.depth /\ last.res.width = last.pre.width
        /\ last.res.count = last.pre.count
        /\ last.res.defaultValue = last.pre.defaultValue
        /\ last.res.table = last.pre.table
        /\ TopNEntries(last.res) = TopNEntries(last.pre)
        /\ Equal(ver, last.pre, last.res)
        /\ \A k \in Keys : Query(ver, last.res, k) = Query(ver, last.pre, k)

\* C17: for two sketches of equal dimensions without Top-N, merging the argument
\* into the receiver and merging the receiver into the argument give the same
\* count and the same table, cell for cell.
C17_MergeCommutes ==
    (last.op = "MergeCMSketch" /\ last.pre.depth = last.prerc.depth
       /\ last.pre.width = last.prerc.width /\ last.pre.topNnil /\ last.prerc.topNnil)
        => LET m == MergeCMSketch(last.prerc, last.pre)
           IN /\ m.err = "" /\ last.err = ""
              /\ m.c.count = c.count
              /\ \A i \in 1..c.depth : \A j \in 1..c.width : m.c.table[i][j] = c.table[i][j]

\* two different sketches, both with data, are merged and a cell wraps
C17_Witness ==
    /\ last.op = "MergeCMSketch" /\ last.err = ""
    /\ last.pre.count > 0 /\ last.prerc.count > last.pre.count
    /\ last.pre.table # last.prerc.table
    /\ \E i \in 1..c.depth : \E j \in 1..c.width :
          last.pre.table[i][j] + last.prerc.table[i][j] >= M32

\* C18: NewCMSketchWithTopN returns for every sample and every numTop (ties at the
\* cutoff frequency and numTop = 0 included), and the Top-N index then holds at
\* most 2*min(numTop, sampleNDV) entries.
C18_TopNSize ==
    last.op = "NewCMSketchWithTopN" =>
        /\ ~last.panic
        /\ Cardinality(TopNEntries(c))
              <= 2 * Min(args.numTop, Cardinality(Sampled(args.data)))

\* C19: InsertBytes, QueryBytes, setValue and setValueBytes leave the Top-N index
\* with the same buckets and the same keys in the same places (only counts of
\* entries may differ), and an InsertBytes of a Top-N key leaves count and every
\* cell of the table as they were.
SameKeys(s, r) ==
    /\ s.topNnil = r.topNnil
    /\ DOMAIN s.topN = DOMAIN r.topN
    /\ \A k \in DOMAIN s.topN :
          /\ Len(s.topN[k]) = Len(r.topN[k])
          /\ \A i \in 1..Len(s.topN[k]) :
                /\ s.topN[k][i].h1 = r.topN[k][i].h1
                /\ s.topN[k][i].h2 = r.topN[k][i].h2
                /\ s.topN[k][i].data = r.topN[k][i].data

C19_TopNFrame ==
    last.op \in {"InsertBytes", "QueryBytes", "setValue", "setValueBytes"} =>
        /\ SameKeys(c, last.pre)
        /\ (last.op = "InsertBytes" /\ last.key \in TopNKeys(last.pre)) =>
               /\ c.count = last.pre.count
               /\ c.table = last.pre.table

\* an InsertBytes of a Top-N key, after a setValue, on a sketch whose table holds counts
C19_Witness ==
    /\ last.op = "InsertBytes"
    /\ last.key \in TopNKeys(last.pre)
    /\ "setValue" \in hist.ops
    /\ last.pre.count > 0
    /\ last.panic = FALSE

\* the sum of the counts of all entries of the Top-N map, bucket by bucket
TopNMass(s) ==
    LET P == {p \in (DOMAIN s.topN) \X (1..MaxOf({Len(s.topN[k]) : k \in DOMAIN s.topN} \cup {0})) :
                 p[2] <= Len(s.topN[p[1]])}
    IN SumOver([p \in P |-> s.topN[p[1]][p[2]].count], P)

\* C20: after the builder has run on a sample of size S with expansion factor
\* ratio, and S*ratio fits the counters, count plus the sum of the counts of all
\* Top-N entries is S*ratio, with or without a Top-N index.
C20_Mass ==
    (Built /\ SampleSize(args.data) * RatioOf(ver, args.data, args.rowCount) < M32) =>
        c.count + TopNMass(c) = SampleSize(args.data) * RatioOf(ver, args.data, args.rowCount)

\* every row of the table sums to count, as integers
RowsSumToCount(s) == \A i \in 1..s.depth : RowSum(s.table[i], 1) = s.count

\* the cell of row i (1-based) that setValue writes for key d
Touched(s, d, i) == s.table[i][Column(s, Sum128(d).h1, Sum128(d).h2, i - 1) + 1]

\* C21: on a sketch whose rows all sum to count, and whose touched cells have
\* room for the count that is set, setValue leaves every row sum equal to the new
\* count, whatever defaultValue is: no touched cell falls below 0.
C21_SetValueRowSums ==
    (/\ last.op = "setValue" /\ ~last.panic
     /\ RowsSumToCount(last.pre)
     /\ \A i \in 1..last.pre.depth : Touched(last.pre, last.key, i) + last.val < M32)
        => RowsSumToCount(c)

\* C22: QueryBytes returns a value, without a run-time panic, on every sketch
\* with depth >= 1 and width >= 1, width 1 included.
C22_QueryReturns ==
    (last.op = "QueryBytes" /\ last.pre.depth >= 1 /\ last.pre.width >= 1) => ~last.panic

====
